---- MODULE Spec2Model ----
(***************************************************************************)
(* The "add item to order" workflow of the inventory service               *)
(* (app/application/use_cases/add_item_to_order.py) over the relational    *)
(* store written by app/infrastructure/database/repositories.py.           *)
(*                                                                         *)
(* Every repository method runs its statement and commits, so each gateway *)
(* call is one atomic step on the committed tables, and the awaits between *)
(* the gateway calls of execute are the points where the calls of other    *)
(* requests interleave.  Each request has its own session (get_db).        *)
(*                                                                         *)
(* Money is held in minor units (Numeric(_, 2) columns): float(unit_price) *)
(* and the store back into Numeric(12, 2) are exact on the magnitudes the  *)
(* bounds cover, so the total is computed in minor units.                  *)
(***************************************************************************)
EXTENDS Integers, Sequences, FiniteSets, TLC

\* ---------------------------------------------------------------- bounds
MaxCalls == 2        \* requests served in one behaviour
MaxQty == 2          \* largest requested quantity
InitStock == 2       \* stock of every item at the start
MaxPriceUpdates == 1 \* price changes in one behaviour
RaceStock == 5       \* stock of every item in the two-request race
RaceQty == 3         \* quantity each request of the race asks for

\* le=1000 of the quantity field of AddItemToOrderRequestSchema
SchemaMax == 1000

\* the catalogue: two items and one order, and two requests in flight
ItemIds == {1, 2}
OrderIds == {1}
Slots == {1, 2}
\* ids a request can name: the stored rows and one id that has no row
ReqItemIds == ItemIds \cup {3}
ReqOrderIds == OrderIds \cup {2}
\* the quantities the request schema lets through (gt=0; the bound le is far
\* above MaxQty); the variant is a schema without gt=0
QuantitiesAlt == 0..MaxQty
Quantities == 1..MaxQty
\* item prices in minor units
Prices == {1, 2}

None == [id |-> 0]

VARIABLES
    items,          \* items table: id -> [quantity, price]
    orders,         \* orders table: id -> [client_id, status, total_amount]
    order_items,    \* order_items table: sequence, row id = index
    pc,             \* slot -> position of the request inside execute
    req,            \* slot -> AddItemToOrderRequest
    item,           \* slot -> the Item entity read at line 52
    existing,       \* slot -> existing_order_item read at line 69
    order_item_id,  \* slot -> order_item_id local
    total_amount,   \* slot -> total_amount local (line 108)
    raised,         \* slot -> the exception raised inside the try block
    outcome,        \* slot -> how execute ended
    http,           \* slot -> the response the endpoint gave the client
    trace,          \* slot -> gateway calls issued so far, in order
    pre,            \* slot -> the tables when the call started
    overlapped,     \* slot -> (order, item) pairs of the calls it overlapped
    started,        \* calls started so far
    added,          \* (order, item) -> quantity added by successful calls
    returned,       \* (order, item) -> ids the successful calls returned
    beaten,         \* slot -> a call on its pair succeeded while it ran
    raced,          \* (order, item) -> two successful calls on it overlapped
    priceUpdates    \* price changes made so far

db == <<items, orders, order_items>>
locals == <<req, item, existing, order_item_id, total_amount, raised, outcome,
            http>>
vars == <<items, orders, order_items, pc, req, item, existing, order_item_id,
          total_amount, raised, outcome, http, trace, pre, overlapped, started, added,
          returned, beaten, raced, priceUpdates>>
ghosts == <<pre, overlapped, started, added, returned, beaten, raced>>

Outcomes == {"success", "OrderNotFound", "ItemNotFound", "InsufficientStock",
             "BusinessException"}
PreconditionFailures == {"OrderNotFound", "ItemNotFound", "InsufficientStock"}
\* what can be raised inside the try block of execute: the three domain
\* failures, and what a gateway raises (MultipleResultsFound by
\* scalar_one_or_none, SQLAlchemyError by any statement)
Raisable == PreconditionFailures \cup {"MultipleResultsFound", "SQLAlchemyError"}
Writes == {"order_item.update_quantity", "order_item.create",
           "item.update_quantity", "order.update_total_amount"}

\* ------------------------------------------------------------ exceptions
\* the classes of app/infrastructure/exceptions.py that execute can raise,
\* each with its base class
BaseOf(cls) ==
    IF cls \in {"OrderNotFound", "ItemNotFound", "InsufficientStock"}
    THEN "BusinessException"
    ELSE "Exception"

\* isinstance(exc, cls) for an exception of class exc
IsInstance(exc, cls) ==
    \/ exc = cls
    \/ BaseOf(exc) = cls
    \/ cls = "Exception"

\* the except clauses of the endpoint (orders.py 114-133), first match wins
HttpStatusAlt(exc) ==
    IF IsInstance(exc, "BusinessException") THEN 400
    ELSE IF IsInstance(exc, "OrderNotFound") THEN 404
    ELSE IF IsInstance(exc, "ItemNotFound") THEN 404
    ELSE IF IsInstance(exc, "InsufficientStock") THEN 400
    ELSE 500
HttpStatus(exc) ==
    IF IsInstance(exc, "OrderNotFound") THEN 404
    ELSE IF IsInstance(exc, "ItemNotFound") THEN 404
    ELSE IF IsInstance(exc, "InsufficientStock") THEN 400
    ELSE IF IsInstance(exc, "BusinessException") THEN 400
    ELSE 500

NoException == [cls |-> "none", text |-> <<>>]
NoResponse == [status |-> 0]

\* the handlers of execute (lines 118-122): a BusinessException passes, any
\* other exception is replaced by a BusinessException that quotes its text
ExecuteRaisesAlt(e) ==
    [cls |-> "BusinessException",
     text |-> <<"Failed to add item to order">> \o e.text]
ExecuteRaises(e) ==
    IF IsInstance(e.cls, "BusinessException")
    THEN e
    ELSE [cls |-> "BusinessException",
          text |-> <<"Failed to add item to order">> \o e.text]

\* the 201 payload of the endpoint (orders.py 35-37, 108-112)
Created(line_id) ==
    [status |-> 201, success |-> TRUE,
     message |-> "Item successfully added to order",
     order_item_id |-> line_id]

\* the HTTPException the endpoint builds from the exception it caught
Failed(e) == [status |-> HttpStatus(e.cls), detail |-> e.text]

\* ------------------------------------------------------------- gateways
\* SQLAlchemyOrderRepository.get_by_id / SQLAlchemyItemRepository.get_by_id:
\* the row, or None
OrderGetByIdAlt(id) == [id |-> id]
OrderGetById(id) == IF id \in DOMAIN orders THEN [id |-> id] @@ orders[id] ELSE None
ItemGetById(id) == IF id \in DOMAIN items THEN [id |-> id] @@ items[id] ELSE None

\* rows selected by get_by_order_and_item and by get_by_order_id
RowsOfAlt(o, i) == {r \in DOMAIN order_items : order_items[r].order_id = o}
RowsOf(o, i) ==
    {r \in DOMAIN order_items :
        order_items[r].order_id = o /\ order_items[r].item_id = i}
RowsOfOrder(o) == {r \in DOMAIN order_items : order_items[r].order_id = o}

RECURSIVE SumLinesAlt(_, _)
SumLinesAlt(lines, ids) ==
    IF ids = {} THEN 0
    ELSE LET r == CHOOSE x \in ids : TRUE
         IN lines[r].unit_price + SumLinesAlt(lines, ids \ {r})

RECURSIVE SumLines(_, _)
\* sum(oi.quantity * float(oi.unit_price) for oi in order_items), the lines
\* given as a function row id -> [quantity, unit_price]
SumLines(lines, ids) ==
    IF ids = {} THEN 0
    ELSE LET r == CHOOSE x \in ids : TRUE
         IN lines[r].quantity * lines[r].unit_price + SumLines(lines, ids \ {r})

\* the sufficiency test of line 58: TRUE when the call must be refused
StockInsufficientAlt(stock, q) == stock + 1 < q
StockInsufficient(stock, q) == stock < q

\* new_quantity of line 76
NewLineQuantityAlt(line_quantity, q) == q
NewLineQuantity(line_quantity, q) == line_quantity + q

\* new_item_quantity of line 101
NewItemQuantityAlt(stock, q) == stock - 1
NewItemQuantity(stock, q) == stock - q

\* unit_price of the OrderItem built at lines 88-93
SnapshotPriceAlt(it) == 0
SnapshotPrice(it) == it.price

\* prices of the catalogue at the start, one per item
InitPrice(i) == i

Pairs == ReqOrderIds \X ReqItemIds
PairOf(r) == <<r.order_id, r.item_id>>
Active(s) == pc[s] \notin {"idle", "done"}

\* ------------------------------------------------------------------ Init
\* no request has arrived yet
NoCalls ==
    /\ pc = [s \in Slots |-> "idle"]
    /\ req = [s \in Slots |-> None]
    /\ item = [s \in Slots |-> None]
    /\ existing = [s \in Slots |-> None]
    /\ order_item_id = [s \in Slots |-> 0]
    /\ total_amount = [s \in Slots |-> 0]
    /\ raised = [s \in Slots |-> NoException]
    /\ outcome = [s \in Slots |-> "none"]
    /\ http = [s \in Slots |-> NoResponse]
    /\ trace = [s \in Slots |-> <<>>]
    /\ pre = [s \in Slots |-> None]
    /\ overlapped = [s \in Slots |-> {}]
    /\ started = 0
    /\ added = [p \in Pairs |-> 0]
    /\ returned = [p \in Pairs |-> {}]
    /\ beaten = [s \in Slots |-> FALSE]
    /\ raced = [p \in Pairs |-> FALSE]
    /\ priceUpdates = 0

\* the catalogue with stock on every item, and orders ids without lines
Seeded(ids, stock) ==
    /\ items = [i \in ItemIds |-> [quantity |-> stock, price |-> InitPrice(i)]]
    /\ orders = [o \in ids |->
                    [client_id |-> 1, status |-> "pending", total_amount |-> 0]]
    /\ order_items = <<>>

Init == Seeded(OrderIds, InitStock) /\ NoCalls

\* --------------------------------------------------------------- actions
\* execute ends with result; the endpoint turns it into the response
Return(s) ==
    /\ pc' = [pc EXCEPT ![s] = "done"]
    /\ outcome' = [outcome EXCEPT ![s] = "success"]
    /\ http' = [http EXCEPT ![s] = Created(order_item_id[s])]
    /\ UNCHANGED raised

\* an exception of class cls with message text is raised inside the try block
Raise(s, cls, text) ==
    LET e == ExecuteRaises([cls |-> cls, text |-> text])
    IN /\ pc' = [pc EXCEPT ![s] = "done"]
       /\ raised' = [raised EXCEPT ![s] = [cls |-> cls, text |-> text]]
       /\ outcome' = [outcome EXCEPT ![s] = e.cls]
       /\ http' = [http EXCEPT ![s] = Failed(e)]

Finish(s, result) ==
    IF result = "success" THEN Return(s) ELSE Raise(s, result, <<result>>)

Step(s, next) ==
    /\ pc' = [pc EXCEPT ![s] = next]
    /\ UNCHANGED <<raised, outcome, http>>

Log(s, call) == trace' = [trace EXCEPT ![s] = Append(@, call)]

\* the endpoint builds the domain request and calls execute (orders.py 96-102);
\* the request takes the first slot that serves no call
Start(s, o, i, q) ==
    /\ ~Active(s)
    /\ \A t \in Slots : t < s => Active(t)
    /\ started < MaxCalls
    /\ started' = started + 1
    /\ LET others == {t \in Slots : Active(t)}
       IN overlapped' = [t \in Slots |->
                            IF t = s THEN {PairOf(req[u]) : u \in others}
                            ELSE IF t \in others
                                 THEN overlapped[t] \cup {<<o, i>>}
                                 ELSE overlapped[t]]
    /\ beaten' = [beaten EXCEPT ![s] = FALSE]
    /\ req' = [req EXCEPT ![s] = [id |-> 1, order_id |-> o, item_id |-> i,
                                  quantity |-> q]]
    /\ pre' = [pre EXCEPT ![s] = [id |-> 1, items |-> items, orders |-> orders,
                                  order_items |-> order_items]]
    /\ pc' = [pc EXCEPT ![s] = "get_order"]
    /\ item' = [item EXCEPT ![s] = None]
    /\ existing' = [existing EXCEPT ![s] = None]
    /\ order_item_id' = [order_item_id EXCEPT ![s] = 0]
    /\ total_amount' = [total_amount EXCEPT ![s] = 0]
    /\ raised' = [raised EXCEPT ![s] = NoException]
    /\ outcome' = [outcome EXCEPT ![s] = "none"]
    /\ http' = [http EXCEPT ![s] = NoResponse]
    /\ trace' = [trace EXCEPT ![s] = <<>>]
    /\ UNCHANGED <<db, added, returned, raced, priceUpdates>>

\* a variant of execute that begins by refusing a quantity below 1
GetOrderAlt(s) ==
    /\ pc[s] = "get_order"
    /\ IF req[s].quantity < 1
       THEN /\ Raise(s, "ValueError", <<"quantity must be positive">>)
            /\ UNCHANGED trace
       ELSE /\ Log(s, "order.get_by_id")
            /\ IF OrderGetById(req[s].order_id) = None
               THEN Finish(s, "OrderNotFound")
               ELSE Step(s, "get_item")
    /\ UNCHANGED <<db, req, item, existing, order_item_id, total_amount,
                   ghosts, priceUpdates>>

\* lines 46-49
GetOrder(s) ==
    /\ pc[s] = "get_order"
    /\ Log(s, "order.get_by_id")
    /\ IF OrderGetById(req[s].order_id) = None
       THEN Finish(s, "OrderNotFound")
       ELSE Step(s, "get_item")
    /\ UNCHANGED <<db, req, item, existing, order_item_id, total_amount,
                   ghosts, priceUpdates>>

\* a variant that reserves the stock before it validates
GetItemAlt(s) ==
    /\ pc[s] = "get_item"
    /\ Log(s, "item.get_by_id")
    /\ LET it == ItemGetById(req[s].item_id)
       IN /\ item' = [item EXCEPT ![s] = it]
          /\ IF it = None
             THEN Finish(s, "ItemNotFound") /\ UNCHANGED items
             ELSE /\ items' = [items EXCEPT ![req[s].item_id].quantity =
                                  IF it.quantity < req[s].quantity THEN 0 ELSE @]
                  /\ IF StockInsufficient(it.quantity, req[s].quantity)
                     THEN Finish(s, "InsufficientStock")
                     ELSE Step(s, "find_line")
    /\ UNCHANGED <<orders, order_items, req, existing, order_item_id,
                   total_amount, ghosts, priceUpdates>>

\* lines 52-66
GetItem(s) ==
    /\ pc[s] = "get_item"
    /\ Log(s, "item.get_by_id")
    /\ LET it == ItemGetById(req[s].item_id)
       IN /\ item' = [item EXCEPT ![s] = it]
          /\ IF it = None
             THEN Finish(s, "ItemNotFound")
             ELSE IF StockInsufficient(it.quantity, req[s].quantity)
                  THEN Finish(s, "InsufficientStock")
                  ELSE Step(s, "find_line")
    /\ UNCHANGED <<db, req, existing, order_item_id, total_amount, ghosts,
                   priceUpdates>>

\* a variant whose lookup takes the first matching row
FindLineAlt(s) ==
    /\ pc[s] = "find_line"
    /\ Log(s, "order_item.get_by_order_and_item")
    /\ LET rows == RowsOf(req[s].order_id, req[s].item_id)
       IN IF rows = {}
          THEN /\ Step(s, "create_line")
               /\ UNCHANGED existing
          ELSE LET r == CHOOSE x \in rows : \A y \in rows : x <= y
               IN /\ existing' = [existing EXCEPT ![s] =
                                     [id |-> r] @@ order_items[r]]
                  /\ Step(s, "update_line")
    /\ UNCHANGED <<db, req, item, order_item_id, total_amount, ghosts,
                   priceUpdates>>

\* lines 69-72; scalar_one_or_none raises when two rows match, and line 120
\* turns that into a plain BusinessException
FindLine(s) ==
    /\ pc[s] = "find_line"
    /\ Log(s, "order_item.get_by_order_and_item")
    /\ LET rows == RowsOf(req[s].order_id, req[s].item_id)
       IN IF Cardinality(rows) > 1
          THEN /\ Finish(s, "MultipleResultsFound")
               /\ UNCHANGED existing
          ELSE IF rows = {}
               THEN /\ Step(s, "create_line")
                    /\ UNCHANGED existing
               ELSE LET r == CHOOSE x \in rows : TRUE
                    IN /\ existing' = [existing EXCEPT ![s] =
                                          [id |-> r] @@ order_items[r]]
                       /\ Step(s, "update_line")
    /\ UNCHANGED <<db, req, item, order_item_id, total_amount, ghosts,
                   priceUpdates>>

\* lines 76-81 and SQLAlchemyOrderItemRepository.update_quantity
UpdateLine(s) ==
    /\ pc[s] = "update_line"
    /\ Log(s, "order_item.update_quantity")
    /\ LET new_quantity == NewLineQuantity(existing[s].quantity, req[s].quantity)
       IN order_items' = [order_items EXCEPT ![existing[s].id].quantity =
                              new_quantity]
    /\ order_item_id' = [order_item_id EXCEPT ![s] = existing[s].id]
    /\ Step(s, "update_stock")
    /\ UNCHANGED <<items, orders, req, item, existing, total_amount, ghosts,
                   priceUpdates>>

\* a variant that goes from the insert straight to the total and leaves the
\* stock write out
CreateLineAlt(s) ==
    /\ pc[s] = "create_line"
    /\ Log(s, "order_item.create")
    /\ order_items' = Append(order_items,
                             [order_id |-> req[s].order_id,
                              item_id |-> req[s].item_id,
                              quantity |-> req[s].quantity,
                              unit_price |-> SnapshotPrice(item[s])])
    /\ order_item_id' = [order_item_id EXCEPT ![s] = Len(order_items) + 1]
    /\ Step(s, "calc_total")
    /\ UNCHANGED <<items, orders, req, item, existing, total_amount, ghosts,
                   priceUpdates>>

\* lines 88-95 and SQLAlchemyOrderItemRepository.create
CreateLine(s) ==
    /\ pc[s] = "create_line"
    /\ Log(s, "order_item.create")
    /\ order_items' = Append(order_items,
                             [order_id |-> req[s].order_id,
                              item_id |-> req[s].item_id,
                              quantity |-> req[s].quantity,
                              unit_price |-> SnapshotPrice(item[s])])
    /\ order_item_id' = [order_item_id EXCEPT ![s] = Len(order_items) + 1]
    /\ Step(s, "update_stock")
    /\ UNCHANGED <<items, orders, req, item, existing, total_amount, ghosts,
                   priceUpdates>>

\* a variant whose UPDATE has no WHERE clause
UpdateStockAlt(s) ==
    /\ pc[s] = "update_stock"
    /\ Log(s, "item.update_quantity")
    /\ items' = [i \in DOMAIN items |->
                    [items[i] EXCEPT !.quantity =
                        NewItemQuantity(item[s].quantity, req[s].quantity)]]
    /\ Step(s, "calc_total")
    /\ UNCHANGED <<orders, order_items, locals, ghosts, priceUpdates>>

\* lines 101-102 and SQLAlchemyItemRepository.update_quantity
UpdateStock(s) ==
    /\ pc[s] = "update_stock"
    /\ Log(s, "item.update_quantity")
    /\ items' = [items EXCEPT ![req[s].item_id].quantity =
                    NewItemQuantity(item[s].quantity, req[s].quantity)]
    /\ Step(s, "calc_total")
    /\ UNCHANGED <<orders, order_items, locals, ghosts, priceUpdates>>

\* a variant that patches the stored total with the amount of the request
CalculateOrderTotalAlt(s) ==
    /\ pc[s] = "calc_total"
    /\ Log(s, "order_item.get_by_order_id")
    /\ total_amount' = [total_amount EXCEPT ![s] =
                           orders[req[s].order_id].total_amount +
                           req[s].quantity * item[s].price]
    /\ Step(s, "update_total")
    /\ UNCHANGED <<db, req, item, existing, order_item_id, ghosts,
                   priceUpdates>>

\* line 108, _calculate_order_total (124-128).  The session of the call holds
\* the line it created or updated; for that row the select either keeps the
\* session's value or loads the committed one, for every other row it loads
\* the committed one.
CalculateOrderTotal(s) ==
    /\ pc[s] = "calc_total"
    /\ Log(s, "order_item.get_by_order_id")
    /\ LET mine == order_item_id[s]
           own == IF existing[s] = None THEN req[s].quantity
                  ELSE NewLineQuantity(existing[s].quantity, req[s].quantity)
       IN \E seen \in {own, order_items[mine].quantity} :
            LET lines == [r \in DOMAIN order_items |->
                            [quantity |-> IF r = mine THEN seen
                                          ELSE order_items[r].quantity,
                             unit_price |-> order_items[r].unit_price]]
            IN total_amount' = [total_amount EXCEPT ![s] =
                                   SumLines(lines, RowsOfOrder(req[s].order_id))]
    /\ Step(s, "update_total")
    /\ UNCHANGED <<db, req, item, existing, order_item_id, ghosts,
                   priceUpdates>>

\* lines 109-116 and SQLAlchemyOrderRepository.update_total_amount
UpdateTotal(s) ==
    /\ pc[s] = "update_total"
    /\ Log(s, "order.update_total_amount")
    /\ orders' = [orders EXCEPT ![req[s].order_id].total_amount =
                     total_amount[s]]
    /\ Finish(s, "success")
    /\ added' = [added EXCEPT ![PairOf(req[s])] = @ + req[s].quantity]
    /\ returned' = [returned EXCEPT ![PairOf(req[s])] = @ \cup {order_item_id[s]}]
    /\ beaten' = [t \in Slots |->
                     beaten[t] \/ (t # s /\ Active(t) /\
                                   PairOf(req[t]) = PairOf(req[s]))]
    /\ raced' = [raced EXCEPT ![PairOf(req[s])] = @ \/ beaten[s]]
    /\ UNCHANGED <<items, order_items, req, item, existing, order_item_id,
                   total_amount, pre, overlapped, started, priceUpdates>>

\* SQLAlchemyItemRepository.update with the stored item and a new price
UpdateItemPrice(i, p) ==
    /\ priceUpdates < MaxPriceUpdates
    /\ p # items[i].price
    /\ items' = [items EXCEPT ![i].price = p]
    /\ priceUpdates' = priceUpdates + 1
    /\ UNCHANGED <<orders, order_items, pc, locals, trace, ghosts>>

Next ==
    \/ \E s \in Slots, o \in ReqOrderIds, i \in ReqItemIds, q \in Quantities :
          Start(s, o, i, q)
    \/ \E s \in Slots : GetOrder(s)
    \/ \E s \in Slots : GetItem(s)
    \/ \E s \in Slots : FindLine(s)
    \/ \E s \in Slots : UpdateLine(s)
    \/ \E s \in Slots : CreateLine(s)
    \/ \E s \in Slots : UpdateStock(s)
    \/ \E s \in Slots : CalculateOrderTotal(s)
    \/ \E s \in Slots : UpdateTotal(s)

\* the HTTP surface: add_item_to_order is the only writer
Spec == Init /\ [][Next]_vars

\* a request that arrives while no other is being served
StartAlone(s, o, i, q) ==
    /\ \A t \in Slots : ~Active(t)
    /\ Start(s, o, i, q)

\* requests served one at a time, with price changes made through the item
\* gateway between any two gateway calls of a request
NextPrice ==
    \/ \E s \in Slots, o \in ReqOrderIds, i \in ReqItemIds, q \in Quantities :
          StartAlone(s, o, i, q)
    \/ \E s \in Slots : GetOrder(s)
    \/ \E s \in Slots : GetItem(s)
    \/ \E s \in Slots : FindLine(s)
    \/ \E s \in Slots : UpdateLine(s)
    \/ \E s \in Slots : CreateLine(s)
    \/ \E s \in Slots : UpdateStock(s)
    \/ \E s \in Slots : CalculateOrderTotal(s)
    \/ \E s \in Slots : UpdateTotal(s)
    \/ \E i \in ItemIds, p \in Prices : UpdateItemPrice(i, p)

SpecPrice == Init /\ [][NextPrice]_vars

\* two requests for RaceQty units each, items holding RaceStock units
NextRace ==
    \/ \E s \in Slots, o \in OrderIds, i \in ItemIds : Start(s, o, i, RaceQty)
    \/ \E s \in Slots : GetOrder(s)
    \/ \E s \in Slots : GetItem(s)
    \/ \E s \in Slots : FindLine(s)
    \/ \E s \in Slots : UpdateLine(s)
    \/ \E s \in Slots : CreateLine(s)
    \/ \E s \in Slots : UpdateStock(s)
    \/ \E s \in Slots : CalculateOrderTotal(s)
    \/ \E s \in Slots : UpdateTotal(s)

InitRace == Seeded(OrderIds, RaceStock) /\ NoCalls

SpecRace == InitRace /\ [][NextRace]_vars

\* execute run from the tables d with no other call in between: the tables
\* it leaves, how it ends and the id it returns
ExecuteAlone(d, r) ==
    LET o == r.order_id
        i == r.item_id
        q == r.quantity
        same(res) == [db |-> [items |-> d.items, orders |-> d.orders,
                              order_items |-> d.order_items],
                      outcome |-> res, id |-> 0]
        rows == {k \in DOMAIN d.order_items :
                    d.order_items[k].order_id = o /\ d.order_items[k].item_id = i}
    IN IF o \notin DOMAIN d.orders THEN same("OrderNotFound")
       ELSE IF i \notin DOMAIN d.items THEN same("ItemNotFound")
       ELSE IF d.items[i].quantity < q THEN same("InsufficientStock")
       ELSE IF Cardinality(rows) > 1 THEN same("BusinessException")
       ELSE LET row == IF rows = {} THEN Len(d.order_items) + 1
                       ELSE CHOOSE k \in rows : TRUE
                lines == IF rows = {}
                         THEN Append(d.order_items,
                                     [order_id |-> o, item_id |-> i,
                                      quantity |-> q,
                                      unit_price |-> d.items[i].price])
                         ELSE [d.order_items EXCEPT ![row].quantity = @ + q]
                stock == [d.items EXCEPT ![i].quantity = @ - q]
                total == SumLines(lines, {k \in DOMAIN lines :
                                             lines[k].order_id = o})
            IN [db |-> [items |-> stock,
                        orders |-> [d.orders EXCEPT ![o].total_amount = total],
                        order_items |-> lines],
                outcome |-> "success", id |-> row]

\* the first request of SpecLine, served before the others arrive
FirstRequest == [id |-> 1, order_id |-> 1, item_id |-> 1, quantity |-> 1]

\* the tables of Init
SeedTables ==
    [items |-> [i \in ItemIds |->
                  [quantity |-> InitStock, price |-> InitPrice(i)]],
     orders |-> [o \in OrderIds |->
                   [client_id |-> 1, status |-> "pending", total_amount |-> 0]],
     order_items |-> <<>>]

\* the tables after FirstRequest has put its line on the order
InitLine ==
    LET after == ExecuteAlone(SeedTables, FirstRequest).db
    IN /\ items = after.items
       /\ orders = after.orders
       /\ order_items = after.order_items
       /\ NoCalls

SpecLine == InitLine /\ [][Next]_vars

\* the gateway call the request of slot s is about to make
GatewayCall(s) ==
    CASE pc[s] = "get_order" -> "order.get_by_id"
      [] pc[s] = "get_item" -> "item.get_by_id"
      [] pc[s] = "find_line" -> "order_item.get_by_order_and_item"
      [] pc[s] = "update_line" -> "order_item.update_quantity"
      [] pc[s] = "create_line" -> "order_item.create"
      [] pc[s] = "update_stock" -> "item.update_quantity"
      [] pc[s] = "calc_total" -> "order_item.get_by_order_id"
      [] pc[s] = "update_total" -> "order.update_total_amount"

\* the database errors a statement can end with
ErrorTexts == {"connection refused", "deadlock detected"}

\* the gateway call of slot s raises instead of returning: its statement has
\* no effect, what earlier gateway calls committed stays, and get_db rolls
\* back a session that holds nothing uncommitted
GatewayRaises(s, text) ==
    /\ Active(s)
    /\ Log(s, GatewayCall(s))
    /\ Raise(s, "SQLAlchemyError", <<text>>)
    /\ UNCHANGED <<db, req, item, existing, order_item_id, total_amount,
                   ghosts, priceUpdates>>

\* the steps of the request of slot s
Run(s) ==
    \/ GetOrder(s)
    \/ GetItem(s)
    \/ FindLine(s)
    \/ UpdateLine(s)
    \/ CreateLine(s)
    \/ UpdateStock(s)
    \/ CalculateOrderTotal(s)
    \/ UpdateTotal(s)
    \/ \E text \in ErrorTexts : GatewayRaises(s, text)

\* requests served one at a time against two orders, every gateway call
\* free to raise
NextSerial ==
    \/ \E s \in Slots, o \in ReqOrderIds \cup {3}, i \in ReqItemIds,
          q \in Quantities : StartAlone(s, o, i, q)
    \/ \E s \in Slots : GetOrder(s)
    \/ \E s \in Slots : GetItem(s)
    \/ \E s \in Slots : FindLine(s)
    \/ \E s \in Slots : UpdateLine(s)
    \/ \E s \in Slots : CreateLine(s)
    \/ \E s \in Slots : UpdateStock(s)
    \/ \E s \in Slots : CalculateOrderTotal(s)
    \/ \E s \in Slots : UpdateTotal(s)
    \/ \E s \in Slots, text \in ErrorTexts : GatewayRaises(s, text)

\* two orders without lines
InitSerial == Seeded(ReqOrderIds, InitStock) /\ NoCalls

\* the event loop resumes a request whenever its gateway call has returned
\* or raised
SpecSerial ==
    /\ InitSerial
    /\ [][NextSerial]_vars
    /\ \A s \in Slots : WF_vars(Run(s))

\* the tables two overlapping calls with FirstRequest leave when the one that
\* created the line computes its total before the other updates the line and
\* writes it last: the line holds both quantities, total_amount counts one,
\* and the stock was written from one read or from two
InitStale ==
    LET one == ExecuteAlone(SeedTables, FirstRequest).db
        two == ExecuteAlone(one, FirstRequest).db
    IN /\ order_items = two.order_items
       /\ orders = one.orders
       /\ items \in {one.items, two.items}
       /\ NoCalls

\* the tables two overlapping calls with FirstRequest leave when both look
\* the line up before either creates it: two rows for the pair, the stock
\* written from the same read, and a total that counts one row or both
InitDup ==
    LET one == ExecuteAlone(SeedTables, FirstRequest).db
        rows == one.order_items \o one.order_items
        o == FirstRequest.order_id
    IN /\ order_items = rows
       /\ items = one.items
       /\ \E total \in {one.orders[o].total_amount, SumLines(rows, DOMAIN rows)} :
             orders = [one.orders EXCEPT ![o].total_amount = total]
       /\ NoCalls

SpecDup == InitDup /\ [][Next]_vars

\* the quantities a caller of execute can pass: AddItemToOrderRequest
\* (entities.py 69-75) takes any int
DirectQuantities == (0 - 1)..MaxQty

\* execute called directly, one call at a time, with any quantity
NextDirect ==
    \/ \E s \in Slots, o \in ReqOrderIds, i \in ReqItemIds,
          q \in DirectQuantities : StartAlone(s, o, i, q)
    \/ \E s \in Slots : GetOrder(s)
    \/ \E s \in Slots : GetItem(s)
    \/ \E s \in Slots : FindLine(s)
    \/ \E s \in Slots : UpdateLine(s)
    \/ \E s \in Slots : CreateLine(s)
    \/ \E s \in Slots : UpdateStock(s)
    \/ \E s \in Slots : CalculateOrderTotal(s)
    \/ \E s \in Slots : UpdateTotal(s)

SpecDirect == Init /\ [][NextDirect]_vars

\* requests served one at a time
NextAlone ==
    \/ \E s \in Slots, o \in ReqOrderIds, i \in ReqItemIds, q \in Quantities :
          StartAlone(s, o, i, q)
    \/ \E s \in Slots : GetOrder(s)
    \/ \E s \in Slots : GetItem(s)
    \/ \E s \in Slots : FindLine(s)
    \/ \E s \in Slots : UpdateLine(s)
    \/ \E s \in Slots : CreateLine(s)
    \/ \E s \in Slots : UpdateStock(s)
    \/ \E s \in Slots : CalculateOrderTotal(s)
    \/ \E s \in Slots : UpdateTotal(s)

SpecStale == InitStale /\ [][NextAlone]_vars

\* the quantities a client can put into a body: around 0, the usual ones,
\* and around the upper bound of the schema
RawQuantities == ((0 - 1)..MaxQty) \cup {SchemaMax, SchemaMax + 1}

\* the Field constraints of AddItemToOrderRequestSchema; the variant has no
\* upper bound on quantity
SchemaAcceptsAlt(body) ==
    body.order_id > 0 /\ body.item_id > 0 /\ body.quantity > 0
SchemaAccepts(body) ==
    /\ body.order_id > 0
    /\ body.item_id > 0
    /\ body.quantity > 0
    /\ body.quantity <= SchemaMax

\* the request of slot s is answered at the boundary: no repository is
\* built and execute is not called
Reject(s, path, body, response) ==
    /\ \A t \in Slots : ~Active(t)
    /\ \A t \in Slots : t >= s
    /\ started < MaxCalls
    /\ started' = started + 1
    /\ req' = [req EXCEPT ![s] = [id |-> 1, path |-> path,
                                  order_id |-> body.order_id,
                                  item_id |-> body.item_id,
                                  quantity |-> body.quantity]]
    /\ http' = [http EXCEPT ![s] = response]
    /\ pc' = [pc EXCEPT ![s] = "idle"]
    /\ item' = [item EXCEPT ![s] = None]
    /\ existing' = [existing EXCEPT ![s] = None]
    /\ order_item_id' = [order_item_id EXCEPT ![s] = 0]
    /\ total_amount' = [total_amount EXCEPT ![s] = 0]
    /\ raised' = [raised EXCEPT ![s] = NoException]
    /\ outcome' = [outcome EXCEPT ![s] = "none"]
    /\ trace' = [trace EXCEPT ![s] = <<>>]
    /\ UNCHANGED <<db, pre, overlapped, added, returned, beaten, raced,
                   priceUpdates>>

\* the body fails the schema: the framework answers 422 and does not call
\* the endpoint function
RejectBody(s, path, body) ==
    /\ ~SchemaAccepts(body)
    /\ Reject(s, path, body,
              [status |-> 422, detail |-> <<"validation error">>])

\* lines 72-81: the order_id of the path is not the one of the body
RejectPath(s, path, body) ==
    /\ SchemaAccepts(body)
    /\ body.order_id # path
    /\ Reject(s, path, body,
              [status |-> 400, detail |-> <<"Order ID mismatch">>])

\* lines 83-102: the request passed both checks and execute is called
Post(s, path, body) ==
    /\ SchemaAccepts(body)
    /\ body.order_id = path
    /\ StartAlone(s, body.order_id, body.item_id, body.quantity)

\* POST /orders/{path}/items with any body, one request at a time
NextHttp ==
    \/ \E s \in Slots, path \in ReqOrderIds,
          body \in [order_id : ReqOrderIds, item_id : ReqItemIds,
                    quantity : RawQuantities] :
             \/ RejectBody(s, path, body)
             \/ RejectPath(s, path, body)
             \/ Post(s, path, body)
    \/ \E s \in Slots : GetOrder(s)
    \/ \E s \in Slots : GetItem(s)
    \/ \E s \in Slots : FindLine(s)
    \/ \E s \in Slots : UpdateLine(s)
    \/ \E s \in Slots : CreateLine(s)
    \/ \E s \in Slots : UpdateStock(s)
    \/ \E s \in Slots : CalculateOrderTotal(s)
    \/ \E s \in Slots : UpdateTotal(s)

SpecHttp == Init /\ [][NextHttp]_vars

TypeOK ==
    /\ \A i \in ItemIds : items[i].quantity \in Int /\ items[i].price \in Prices
    /\ \A s \in Slots : pc[s] \in {"idle", "get_order", "get_item", "find_line",
                                   "update_line", "create_line", "update_stock",
                                   "calc_total", "update_total", "done"}
    /\ \A s \in Slots : outcome[s] \in Outcomes \cup {"none"}
    /\ \A s \in Slots : raised[s].cls \in Raisable \cup {"none"}
    /\ \A s \in Slots : http[s].status \in {0, 201, 400, 404, 422, 500}

\* ------------------------------------------------------------ properties
\* the step in which the call of slot s ends
Completes(s) == pc[s] # "done" /\ pc'[s] = "done"
\* a step taken by the call of slot s
Moves(s) == pc[s] # pc'[s] /\ Active(s)
Succeeded(s) == pc[s] = "done" /\ outcome[s] = "success"

\* the call of slot s has overlapped a call on the same item / the same order
OverlapsItem(s) == \E p \in overlapped[s] : p[2] = req[s].item_id
OverlapsOrder(s) == \E p \in overlapped[s] : p[1] = req[s].order_id

LineWrites(s) ==
    {k \in DOMAIN trace[s] :
        trace[s][k] \in {"order_item.create", "order_item.update_quantity"}}

RECURSIVE LineTotal(_, _, _)
\* quantity * unit_price summed over the rows 1..n of tbl that belong to o
LineTotal(tbl, o, n) ==
    IF n = 0 THEN 0
    ELSE LineTotal(tbl, o, n - 1) +
         (IF tbl[n].order_id = o THEN tbl[n].quantity * tbl[n].unit_price ELSE 0)

\* C1: when a call that overlapped no other call on its item ends in success,
\* the item's stock is the stock at the start of the call minus the requested
\* quantity, and it is not negative.
C1_StockDecrement ==
    [][\A s \in Slots :
        (Completes(s) /\ outcome'[s] = "success" /\ ~OverlapsItem(s)) =>
            LET i == req[s].item_id
            IN /\ items'[i].quantity = pre[s].items[i].quantity - req[s].quantity
               /\ items'[i].quantity >= 0]_vars

C1_Witness ==
    \E s \in Slots :
        /\ Succeeded(s) /\ ~OverlapsItem(s)
        /\ pre[s].items[req[s].item_id].quantity = 1
        /\ items[req[s].item_id].quantity = 0

\* C2: in every reachable state every item's stock is >= 0, whatever the
\* interleaving of the calls.
C2_StockNeverNegative == \A i \in ItemIds : items[i].quantity >= 0

C2_Witness ==
    \E s, t \in Slots :
        /\ s # t /\ Succeeded(s) /\ Succeeded(t)
        /\ req[s].item_id = req[t].item_id
        /\ OverlapsItem(s) /\ OverlapsItem(t)
        /\ req[s].quantity + req[t].quantity > InitStock

\* C3: when a call that overlapped no other call on its order ends in success,
\* the order's total_amount is the sum of quantity * unit_price over the
\* order's lines.
C3_TotalIsSumOfLines ==
    [][\A s \in Slots :
        (Completes(s) /\ outcome'[s] = "success" /\ ~OverlapsOrder(s)) =>
            orders'[req[s].order_id].total_amount =
                LineTotal(order_items', req[s].order_id, Len(order_items'))]_vars

C3_Witness ==
    \E s \in Slots :
        /\ Succeeded(s) /\ ~OverlapsOrder(s)
        /\ Cardinality(RowsOfOrder(req[s].order_id)) = 2
        /\ orders[req[s].order_id].total_amount =
               LineTotal(order_items, req[s].order_id, Len(order_items))
        /\ orders[req[s].order_id].total_amount > 0

\* C4: once the calls on an (order, item) pair are over and no two successful
\* ones overlapped, the pair has exactly one line, its quantity is the sum of the
\* quantities of the successful calls, and every successful call returned the
\* id of that line.
C4_OneLineAccumulates ==
    \A p \in Pairs :
        ( /\ ~raced[p]
          /\ added[p] > 0
          /\ \A s \in Slots : Active(s) => PairOf(req[s]) # p ) =>
            /\ Cardinality(RowsOf(p[1], p[2])) = 1
            /\ \A r \in RowsOf(p[1], p[2]) : order_items[r].quantity = added[p]
            /\ returned[p] = RowsOf(p[1], p[2])

C4_Witness ==
    \E s \in Slots :
        /\ Succeeded(s) /\ existing[s] # None
        /\ ~raced[PairOf(req[s])]
        /\ added[PairOf(req[s])] = existing[s].quantity + req[s].quantity
        /\ order_items[order_item_id[s]].quantity = added[PairOf(req[s])]

\* C5: in every reachable state at most one line exists per
\* (order_id, item_id) pair.
C5_AtMostOneLinePerPair ==
    \A p \in Pairs : Cardinality(RowsOf(p[1], p[2])) <= 1

\* C6: a call that ends in OrderNotFound, ItemNotFound or InsufficientStock
\* has issued no gateway write, none of its steps changes a table, and when no
\* other call ran during it the stock, the orders and the lines are those of
\* the start of the call.
C6_FailedPreconditionWritesNothing ==
    [][\A s \in Slots :
        /\ (Moves(s) /\ pc[s] \in {"get_order", "get_item"}) => db' = db
        /\ (Completes(s) /\ outcome'[s] \in PreconditionFailures) =>
              /\ db' = db
              /\ \A k \in DOMAIN trace'[s] : trace'[s][k] \notin Writes
              /\ overlapped[s] = {} =>
                    /\ order_items' = pre[s].order_items
                    /\ orders' = pre[s].orders
                    /\ \A i \in ItemIds :
                          items'[i].quantity = pre[s].items[i].quantity]_vars

C6_Witness ==
    \E s \in Slots :
        /\ pc[s] = "done" /\ outcome[s] = "InsufficientStock"
        /\ overlapped[s] = {}
        /\ Len(order_items) > 0
        /\ order_items = pre[s].order_items
        /\ orders = pre[s].orders
        /\ items[req[s].item_id].quantity < req[s].quantity

\* C7: the unit_price of a line is the price of the item entity the creating
\* call read, and no later step (an increment of the line, a price change of
\* the item, any other gateway call) changes it.
C7_UnitPriceFixed ==
    [][/\ \A r \in DOMAIN order_items :
             /\ r \in DOMAIN order_items'
             /\ order_items'[r].unit_price = order_items[r].unit_price
       /\ \A s \in Slots :
             (pc[s] = "create_line" /\ Moves(s)) =>
                 order_items'[Len(order_items')].unit_price = item[s].price]_vars

C7_Witness ==
    \E s \in Slots :
        /\ Succeeded(s) /\ existing[s] # None
        /\ order_items[order_item_id[s]].quantity > existing[s].quantity
        /\ order_items[order_item_id[s]].unit_price # items[req[s].item_id].price

\* C8: a call on an order that does not exist ends in OrderNotFound after the
\* order lookup alone (the item is never read); a call on an existing order
\* and an item that does not exist ends in ItemNotFound, whatever the quantity.
C8_ValidationOrder ==
    \A s \in Slots :
        pc[s] = "done" =>
            /\ req[s].order_id \notin OrderIds =>
                  /\ outcome[s] = "OrderNotFound"
                  /\ trace[s] = <<"order.get_by_id">>
                  /\ item[s] = None
            /\ (req[s].order_id \in OrderIds /\ req[s].item_id \notin ItemIds) =>
                  /\ outcome[s] = "ItemNotFound"
                  /\ trace[s] = <<"order.get_by_id", "item.get_by_id">>

C8_Witness ==
    \E s, t \in Slots :
        /\ pc[s] = "done" /\ pc[t] = "done"
        /\ req[s].order_id \notin OrderIds /\ req[s].item_id \in ItemIds
        /\ outcome[s] = "OrderNotFound"
        /\ req[t].order_id \in OrderIds /\ req[t].item_id \notin ItemIds
        /\ req[t].quantity = MaxQty
        /\ outcome[t] = "ItemNotFound"

\* C9: with an existing order and item the call ends in InsufficientStock
\* exactly when the stock it read is below the requested quantity, and a call
\* that requests exactly the stock it read ends in success with the item's
\* stock at 0.
C9_StockBoundary ==
    [][\A s \in Slots :
        (Completes(s) /\ item'[s] # None) =>
            /\ outcome'[s] = "InsufficientStock" <=>
                  item'[s].quantity < req[s].quantity
            /\ item'[s].quantity = req[s].quantity =>
                  /\ outcome'[s] = "success"
                  /\ items'[req[s].item_id].quantity = 0]_vars

\* C10: a successful call returns the id of a line of its (order, item) pair
\* and has made exactly one line write: when its lookup found a line, the
\* update of that line, which adds no row and whose id it returns; otherwise
\* the creation of one row, whose id it returns.  No other step of the call
\* changes the number of lines.
C10_ReturnsTheLine ==
    [][\A s \in Slots :
        /\ (Moves(s) /\ pc[s] = "update_line") =>
              /\ Len(order_items') = Len(order_items)
              /\ existing[s].id \in DOMAIN order_items
              /\ order_item_id'[s] = existing[s].id
        /\ (Moves(s) /\ pc[s] = "create_line") =>
              /\ existing[s] = None
              /\ Len(order_items') = Len(order_items) + 1
              /\ order_item_id'[s] = Len(order_items')
        /\ (Moves(s) /\ pc[s] \notin {"create_line"}) =>
              Len(order_items') = Len(order_items)
        /\ (Completes(s) /\ outcome'[s] = "success") =>
              /\ order_item_id'[s] \in DOMAIN order_items'
              /\ PairOf(order_items'[order_item_id'[s]]) = PairOf(req[s])
              /\ Cardinality(LineWrites(s)) = 1
              /\ existing[s] # None => order_item_id'[s] = existing[s].id
              /\ overlapped[s] = {} =>
                    Len(order_items') = Len(pre[s].order_items) +
                        (IF existing[s] = None THEN 1 ELSE 0)]_vars

C10_Witness ==
    \E s, t \in Slots :
        /\ s # t /\ Succeeded(s) /\ Succeeded(t)
        /\ existing[s] # None /\ order_item_id[s] = existing[s].id
        /\ existing[t] = None /\ order_item_id[t] = Len(order_items)

\* both slots hold a finished call, and the two calls were in flight together
BothDone ==
    /\ pc[1] = "done" /\ pc[2] = "done"
    /\ PairOf(req[1]) \in overlapped[2]

\* C11: of two concurrent calls on one item with stock RaceStock, each asking
\* for RaceQty, exactly one succeeds and the other fails, and the stock left
\* is not negative.
C11_ExactlyOneSucceeds ==
    (BothDone /\ req[1].item_id = req[2].item_id)
        => /\ Cardinality({s \in Slots : outcome[s] = "success"}) = 1
           /\ items[req[1].item_id].quantity >= 0

\* the tables and the results after the calls of slots a and b ran one at a
\* time, a first, from the tables d
OneAtATime(d, a, b) ==
    LET first == ExecuteAlone(d, req[a])
        second == ExecuteAlone(first.db, req[b])
    IN /\ outcome[a] = first.outcome
       /\ outcome[b] = second.outcome
       /\ items = second.db.items
       /\ orders = second.db.orders
       /\ order_items = second.db.order_items

\* C12: two concurrent calls that touch the same item or the same order end
\* with the outcomes and the tables of one of the two one-at-a-time orders.
C12_Serializable ==
    (started = 2 /\ BothDone /\
     (req[1].item_id = req[2].item_id \/ req[1].order_id = req[2].order_id))
        => OneAtATime(pre[1], 1, 2) \/ OneAtATime(pre[1], 2, 1)

\* C13: two concurrent successful calls adding q1 and q2 to a line that held
\* n leave n + q1 + q2 on it.
C13_NoLostIncrement ==
    (started = 2 /\ BothDone /\ Succeeded(1) /\ Succeeded(2) /\
     PairOf(req[1]) = PairOf(req[2]))
        => \A r \in DOMAIN pre[1].order_items :
              (pre[1].order_items[r].order_id = req[1].order_id /\
               pre[1].order_items[r].item_id = req[1].item_id)
                  => order_items[r].quantity =
                        pre[1].order_items[r].quantity + req[1].quantity +
                        req[2].quantity

\* C14: once two concurrent successful calls on one order have completed,
\* its total_amount is the sum of quantity * unit_price over its lines.
C14_TotalAfterConcurrentCalls ==
    (BothDone /\ Succeeded(1) /\ Succeeded(2) /\
     req[1].order_id = req[2].order_id)
        => orders[req[1].order_id].total_amount =
              LineTotal(order_items, req[1].order_id, Len(order_items))

\* C15: the stock write of a call decrements the stock committed at that
\* moment, not the stock the call read when it validated.
C15_DecrementsLatestStock ==
    [][\A s \in Slots :
          (pc[s] = "update_stock" /\ pc'[s] = "calc_total")
              => items'[req[s].item_id].quantity =
                    items[req[s].item_id].quantity - req[s].quantity]_vars

\* C17: while a call is in flight the tables show none of its writes, so a
\* reader sees either all of its effects or none.
C17_EffectsAppearAtomic ==
    \A s \in Slots :
        Active(s) => \A k \in 1..Len(trace[s]) : trace[s][k] \notin Writes

\* C16: a call that fails leaves line items, item stock and order total as
\* they were before the call, whatever it had written before it failed.
C16_AllOrNothing ==
    [][\A s \in Slots :
          (Completes(s) /\ outcome'[s] # "success")
              => /\ items' = pre[s].items
                 /\ orders' = pre[s].orders
                 /\ order_items' = pre[s].order_items]_vars

\* the rows of order_items that the step changes or adds
Touched ==
    {r \in DOMAIN order_items' :
        r \notin DOMAIN order_items \/ order_items'[r] # order_items[r]}

\* C18: a step of AddItemToOrder(o, i, q) changes at most the quantity of
\* item i, the total_amount of order o and one line of (o, i); prices, other
\* items, other orders, status and client_id of o and all other lines stay,
\* and no row is deleted.
C18_Frame ==
    [][\A s \in Slots :
          Moves(s)
              => /\ DOMAIN items' = DOMAIN items
                 /\ \A i \in DOMAIN items :
                       /\ items'[i].price = items[i].price
                       /\ i # req[s].item_id => items'[i] = items[i]
                 /\ DOMAIN orders' = DOMAIN orders
                 /\ \A o \in DOMAIN orders :
                       /\ orders'[o].status = orders[o].status
                       /\ orders'[o].client_id = orders[o].client_id
                       /\ o # req[s].order_id => orders'[o] = orders[o]
                 /\ Len(order_items') >= Len(order_items)
                 /\ Cardinality(Touched) <= 1
                 /\ \A r \in Touched :
                       /\ order_items'[r].order_id = req[s].order_id
                       /\ order_items'[r].item_id = req[s].item_id
                       /\ r \in DOMAIN order_items =>
                             order_items'[r] =
                                 [order_items[r] EXCEPT !.quantity =
                                     order_items'[r].quantity]]_vars

\* a successful call on one order, made while another order holds a line and
\* a total of its own
C18_Witness ==
    /\ Succeeded(1)
    /\ \E r \in DOMAIN order_items :
          /\ order_items[r].order_id # req[1].order_id
          /\ order_items[r].item_id # req[1].item_id
          /\ orders[order_items[r].order_id].total_amount > 0
    /\ \E r \in DOMAIN order_items : order_items[r].order_id = req[1].order_id

\* C19: every call ends, with one outcome that stays: success, or a domain
\* failure under its own class, or a plain BusinessException in place of any
\* other exception raised inside.
C19_OneOutcome ==
    /\ [](\A s \in Slots :
            pc[s] = "done"
                => /\ outcome[s] \in Outcomes
                   /\ outcome[s] = "success" <=> raised[s].cls = "none"
                   /\ raised[s].cls \in PreconditionFailures
                         => outcome[s] = raised[s].cls
                   /\ raised[s].cls \notin PreconditionFailures \cup {"none"}
                         => outcome[s] = "BusinessException")
    /\ [][\A s \in Slots :
            (pc[s] = "done" /\ pc'[s] = "done") => outcome'[s] = outcome[s]]_vars
    /\ \A s \in Slots : Active(s) ~> pc[s] = "done"

\* a gateway has raised after the call wrote its line, and the call ended
\* with the plain BusinessException
C19_Witness ==
    /\ pc[1] = "done"
    /\ raised[1].cls = "SQLAlchemyError"
    /\ outcome[1] = "BusinessException"
    /\ Len(trace[1]) > 4

\* C20: the endpoint answers success with 201 and {success, message,
\* order_item_id}, OrderNotFound and ItemNotFound with 404, and
\* InsufficientStock with 400.
C20_StatusMapping ==
    \A s \in Slots :
        pc[s] = "done"
            => /\ outcome[s] = "success"
                     => http[s] = [status |-> 201, success |-> TRUE,
                                   message |-> "Item successfully added to order",
                                   order_item_id |-> order_item_id[s]]
               /\ outcome[s] = "OrderNotFound" => http[s].status = 404
               /\ outcome[s] = "ItemNotFound" => http[s].status = 404
               /\ outcome[s] = "InsufficientStock" => http[s].status = 400

\* one request answered 201 with the id of its line, another answered 404
C20_Witness ==
    /\ Succeeded(1) /\ http[1].status = 201 /\ http[1].order_item_id > 0
    /\ pc[2] = "done" /\ outcome[2] \in {"OrderNotFound", "ItemNotFound"}
    /\ http[2].status = 404

\* the call of slot s has ended on an exception that is no domain failure
Unexpected(s) ==
    pc[s] = "done" /\ raised[s].cls \notin PreconditionFailures \cup {"none"}

\* C21: a failure inside the workflow that is no domain failure, such as a
\* gateway raising a database error, is answered with status 500.
C21_UnexpectedIsServerError ==
    \A s \in Slots : Unexpected(s) => http[s].status = 500

\* C22: the answer to an unexpected failure is the same whatever the text of
\* the exception raised inside: the run that differs only in that text gives
\* the caller the same payload.
C22_PayloadIndependentOfText ==
    [][\A s \in Slots :
          (Completes(s) /\ raised'[s].cls = "SQLAlchemyError")
              => \A text \in ErrorTexts :
                    http'[s] = Failed(ExecuteRaises([cls |-> raised'[s].cls,
                                                      text |-> <<text>>]))]_vars

\* C23: through the HTTP surface, under any interleaving, every OrderItem has
\* quantity > 0.
C23_LineQuantityPositive ==
    \A r \in DOMAIN order_items : order_items[r].quantity > 0

\* a line that one call created and a second call added to
C23_Witness ==
    \E s \in Slots :
        /\ Succeeded(s)
        /\ existing[s] # None
        /\ order_items[existing[s].id].quantity > existing[s].quantity

\* a request arrives and is given slot s
Arrives(s) ==
    /\ started' = started + 1
    /\ ~Active(s)
    /\ \A t \in Slots : t < s => Active(t)

\* the order_id of the path of the request r
PathOf(r) == IF "path" \in DOMAIN r THEN r.path ELSE r.order_id

\* C24: a request whose quantity is outside 1..SchemaMax, or whose path
\* order_id differs from the body order_id, is answered at the boundary (the
\* mismatch with 400): execute is not called, no gateway call is made and no
\* table changes.
C24_RejectedAtBoundary ==
    [][\A s \in Slots :
          (Arrives(s) /\
           (req'[s].quantity < 1 \/ req'[s].quantity > SchemaMax \/
            PathOf(req'[s]) # req'[s].order_id))
              => /\ UNCHANGED <<items, orders, order_items>>
                 /\ pc'[s] = "idle"
                 /\ trace'[s] = <<>>
                 /\ http'[s].status \in {400, 422}
                 /\ (req'[s].quantity \in 1..SchemaMax) => http'[s].status = 400]_vars

\* an order holds a line, and the next request, whose path names another
\* order than its body, has been answered 400
C24_Witness ==
    /\ Len(order_items) > 0
    /\ pc[1] = "idle"
    /\ PathOf(req[1]) # req[1].order_id
    /\ req[1].quantity \in 1..SchemaMax
    /\ http[1].status = 400

\* total_amount of order o is not the sum over its lines in the tables d
Inconsistent(d, o) ==
    d.orders[o].total_amount # LineTotal(d.order_items, o, Len(d.order_items))

\* C25: after a successful call on order o that overlapped no other call,
\* total_amount of o is the sum over all current lines of o, whatever
\* total_amount held before the call.
C25_TotalRederived ==
    [][\A s \in Slots :
          (Completes(s) /\ outcome'[s] = "success" /\ overlapped[s] = {})
              => LET o == req[s].order_id
                 IN orders'[o].total_amount =
                       LineTotal(order_items', o, Len(order_items'))]_vars

\* a call has succeeded on an order whose total was wrong before the call and
\* which holds a line for another item; the total is now the sum
C25_Witness ==
    \E s \in Slots :
        /\ Succeeded(s)
        /\ Inconsistent(pre[s], req[s].order_id)
        /\ \E r \in DOMAIN order_items :
              /\ order_items[r].order_id = req[s].order_id
              /\ order_items[r].item_id # req[s].item_id
        /\ orders[req[s].order_id].total_amount =
              LineTotal(order_items, req[s].order_id, Len(order_items))

\* the gateway calls of the call of slot s from its first write on, with the
\* read of the lines for the total
FromFirstWrite(s) ==
    SelectSeq(trace[s],
              LAMBDA c : c \in Writes \cup {"order_item.get_by_order_id"})

\* C26: a successful call has written, each once and in this order, its line
\* (create or update_quantity), the stock of the item and the total of the
\* order, and has read the lines for the total after the first two writes.
C26_WriteOrder ==
    \A s \in Slots :
        Succeeded(s)
            => \E line \in {"order_item.create", "order_item.update_quantity"} :
                  FromFirstWrite(s) = <<line, "item.update_quantity",
                                        "order_item.get_by_order_id",
                                        "order.update_total_amount">>

\* two successful calls, one that created its line and one that updated it
C26_Witness ==
    /\ Succeeded(1) /\ Succeeded(2)
    /\ FromFirstWrite(1)[1] # FromFirstWrite(2)[1]

\* the quantity of item i on the first n lines of the table, over all orders
RECURSIVE Allocated(_, _, _)
Allocated(tbl, i, n) ==
    IF n = 0 THEN 0
    ELSE Allocated(tbl, i, n - 1) +
         (IF tbl[n].item_id = i THEN tbl[n].quantity ELSE 0)

\* C27: whenever no call is in progress, the stock of every item plus the
\* quantity of the item on all lines is the initial stock of the item.
C27_StockConserved ==
    (\A s \in Slots : ~Active(s))
        => \A i \in ItemIds :
              items[i].quantity + Allocated(order_items, i, Len(order_items))
                  = InitStock

\* C28: no step raises the stock of an item or lowers the quantity of an
\* existing line.
C28_Monotonic ==
    [][/\ \A i \in ItemIds : items'[i].quantity <= items[i].quantity
       /\ \A r \in DOMAIN order_items :
             order_items'[r].quantity >= order_items[r].quantity]_vars

\* the rows of the table tbl for order o and item i
RowsIn(tbl, o, i) ==
    {r \in DOMAIN tbl : tbl[r].order_id = o /\ tbl[r].item_id = i}

\* C29: once two rows exist for an (order, item) pair, a call for the pair
\* that reaches the line lookup ends there with the plain BusinessException;
\* a call made after the two rows exist changes no table at any step, and the
\* rows of the pair are never deleted, so this holds for ever.
C29_DuplicateRowsBlockThePair ==
    [][/\ \A s \in Slots :
             (pc[s] = "find_line" /\ pc'[s] # pc[s] /\
              Cardinality(RowsIn(order_items, req[s].order_id,
                                 req[s].item_id)) > 1)
                 => /\ pc'[s] = "done"
                    /\ outcome'[s] = "BusinessException"
                    /\ raised'[s].cls = "MultipleResultsFound"
                    /\ trace'[s] = <<"order.get_by_id", "item.get_by_id",
                                     "order_item.get_by_order_and_item">>
       /\ \A s \in Slots :
             (Moves(s) /\
              Cardinality(RowsIn(pre[s].order_items, req[s].order_id,
                                 req[s].item_id)) > 1)
                 => UNCHANGED <<items, orders, order_items>>
       /\ \A p \in Pairs :
             Cardinality(RowsIn(order_items, p[1], p[2])) > 1
                 => RowsIn(order_items, p[1], p[2]) \subseteq
                       RowsIn(order_items', p[1], p[2])]_vars

\* a call for the pair with two rows had enough stock, failed at the lookup,
\* and the tables are as it found them
C29_Witness ==
    \E s \in Slots :
        /\ pc[s] = "done"
        /\ raised[s].cls = "MultipleResultsFound"
        /\ item[s].quantity >= req[s].quantity
        /\ Cardinality(RowsOf(req[s].order_id, req[s].item_id)) = 2
        /\ items = pre[s].items
        /\ orders = pre[s].orders
        /\ order_items = pre[s].order_items

\* C30: execute called directly with quantity <= 0 for an existing order and
\* item passes the stock check and returns success; the line it created holds
\* that quantity, the line it updated holds the old quantity plus it, and the
\* stock written is the old stock minus it, so the stock does not decrease.
C30_NoQuantityCheckInExecute ==
    [][\A s \in Slots :
          (Completes(s) /\ req[s].quantity <= 0 /\
           req[s].order_id \in OrderIds /\ req[s].item_id \in ItemIds)
              => LET o == req[s].order_id
                     i == req[s].item_id
                     q == req[s].quantity
                     old == RowsIn(pre[s].order_items, o, i)
                     line == order_items'[order_item_id'[s]]
                 IN /\ outcome'[s] = "success"
                    /\ line.order_id = o /\ line.item_id = i
                    /\ old = {} => line.quantity = q
                    /\ \A r \in old :
                          /\ order_item_id'[s] = r
                          /\ line.quantity = pre[s].order_items[r].quantity + q
                    /\ items'[i].quantity = pre[s].items[i].quantity - q
                    /\ items'[i].quantity >= pre[s].items[i].quantity]_vars

\* a direct call with a negative quantity has succeeded: its line holds a
\* quantity that is not positive and the stock is above the initial stock
C30_Witness ==
    \E s \in Slots :
        /\ Succeeded(s)
        /\ req[s].quantity < 0
        /\ order_items[order_item_id[s]].quantity <= 0
        /\ items[req[s].item_id].quantity > InitStock

====
